---- MODULE Spec2Model ----
(***************************************************************************)
(* A model of src/Transformer/model.py: the module classes of an           *)
(* encoder-decoder Transformer, their constructors (__init__), their       *)
(* forward methods and build_transformer.                                  *)
(*                                                                         *)
(* A client holds at most one module instance (self).  A constructor call  *)
(* either yields an instance or raises; a forward call on the instance     *)
(* returns a tensor or raises, and may change the instance's attributes.   *)
(* Exceptions are modelled as outcomes: Raise(e) propagates through every  *)
(* caller exactly as a Python exception does.                              *)
(*                                                                         *)
(* Object identity (which Python decides by allocation) is modelled by an  *)
(* id: every constructor takes the first free id a, gives it to the object *)
(* it builds and numbers the objects it builds inside from a + 1; top is   *)
(* the last id used.                                                       *)
(***************************************************************************)
EXTENDS Integers, Sequences, FiniteSets, TLC

VARIABLES
    pc,     \* the client's position: idle, constructed, called
    call,   \* the last call made and its arguments
    self,   \* the module instance the client holds, NoObj when it holds none
    ret,    \* the outcome of the last call
    ev      \* the calls the last forward made of its blocks, in order

vars == <<pc, call, self, ret, ev>>

(***************************************************************************)
(* Bounds of the model.                                                    *)
(***************************************************************************)
MaxDModel == 4
MaxH == 3
MaxN == 2
MaxDff == 1
MaxVocab == 1
MaxSeqLen == 2
MaxLen == 2

\* dropout probabilities, in percent: 0 disables dropout, 150 is out of [0,1]
DropoutVals == {0, 50, 150}

\* batch sizes of the tensors passed to forward
BatchSizes == {1, 2}

(***************************************************************************)
(* Outcomes of a call.                                                     *)
(***************************************************************************)
NoObj == [cls |-> "None"]

Ok(v) == [ok |-> TRUE, exc |-> "", val |-> v]

Raise(e) == [ok |-> FALSE, exc |-> e, val |-> NoObj]

NoRet == [ok |-> FALSE, exc |-> "not called", val |-> NoObj]

(***************************************************************************)
(* Sequencing.  Then(o, F) is "compute o; if it raised, the exception      *)
(* propagates; otherwise go on with F of its value".                       *)
(***************************************************************************)
Then(o, F(_)) == IF o.ok THEN F(o.val) ELSE o

(***************************************************************************)
(* torch.nn building blocks the source instantiates.                       *)
(***************************************************************************)
\* nn.Linear(in_features, out_features): a weight matrix and a bias vector
Linear_init(a, inf, outf) ==
    Ok([cls |-> "Linear", id |-> a, top |-> a, inf |-> inf, outf |-> outf,
        weight |-> "init", bias |-> "init"])

\* nn.Embedding(num_embeddings, embedding_dim)
Embedding_init(a, num, dim) ==
    Ok([cls |-> "Embedding", id |-> a, top |-> a, num |-> num, dim |-> dim,
        weight |-> "init"])

\* nn.Dropout(p) refuses a probability outside [0, 1]
Dropout_init(a, p) ==
    IF p < 0 \/ p > 100
    THEN Raise("ValueError")
    ELSE Ok([cls |-> "Dropout", id |-> a, top |-> a, p |-> p])

\* a tensor of width src is assigned to a slot of width dst (broadcasting)
Broadcastable(src, dst) == src = dst \/ src = 1

(***************************************************************************)
(* Constructors of the source's classes.                                   *)
(***************************************************************************)
InputEmbeddings_init(a, d_model, vocab_size) ==
    Then(Embedding_init(a + 1, vocab_size, d_model), LAMBDA e :
    Ok([cls |-> "InputEmbeddings", id |-> a, top |-> e.top,
        d_model |-> d_model, vocab_size |-> vocab_size, embedding |-> e]))

\* the entry pe[pos, c] of the sinusoid table: sin for an even column c, cos
\* for an odd one, of pos * div_term[c \div 2]
PeEntry(pos, c) ==
    [f |-> IF c % 2 = 0 THEN "sin" ELSE "cos", pos |-> pos, i |-> c \div 2]

PositionalEncoding_init(a, d_model, seq_len, dropout) ==
    LET nterms == (d_model + 1) \div 2      \* len(arange(0, d_model, 2))
        evens  == (d_model + 1) \div 2      \* columns of pe[:, 0::2]
        odds   == d_model \div 2            \* columns of pe[:, 1::2]
    IN  IF ~Broadcastable(nterms, evens) \/ ~Broadcastable(nterms, odds)
        THEN Raise("RuntimeError")
        ELSE Ok([cls |-> "PositionalEncoding", id |-> a, top |-> a,
                 d_model |-> d_model, seq_len |-> seq_len,
                 dropout |-> [cls |-> "float", p |-> dropout],
                 pe |-> [pos \in 0..(seq_len - 1) |->
                            [c \in 0..(d_model - 1) |-> PeEntry(pos, c)]]])

\* args: the positional arguments of the call; d_model has no default
LayerNormalization_init(a, args) ==
    IF Len(args) = 0
    THEN Raise("TypeError")
    ELSE Ok([cls |-> "LayerNormalization", id |-> a, top |-> a,
             d_model |-> args[1], alpha |-> "ones", beta |-> "zeros"])

FeedForward_init(a, d_model, d_ff, dropout) ==
    Then(Linear_init(a + 1, d_model, d_ff), LAMBDA l1 :
    Then(Linear_init(a + 2, d_ff, d_model), LAMBDA l2 :
    Ok([cls |-> "FeedForward", id |-> a, top |-> a + 2,
        d_model |-> d_model, d_ff |-> d_ff,
        dropout |-> [cls |-> "float", p |-> dropout],
        linear1 |-> l1, linear2 |-> l2])))

\* the attributes of an attention block, d being its Dropout module
AttentionFields(a, d_model, h, d) ==
    [cls |-> "MultiHeadAttention", id |-> a, top |-> a + 5,
     d_model |-> d_model, h |-> h, d_k |-> d_model \div h,
     w_q |-> Linear_init(a + 1, d_model, d_model).val,
     w_k |-> Linear_init(a + 2, d_model, d_model).val,
     w_v |-> Linear_init(a + 3, d_model, d_model).val,
     w_o |-> Linear_init(a + 4, d_model, d_model).val,
     dropout |-> d,
     attention_scores |-> <<>>]

MultiHeadAttention_init_NoAssert(a, d_model, h, dropout) ==
    Then(Dropout_init(a + 5, dropout), LAMBDA d :
    Ok(AttentionFields(a, d_model, h, d)))

MultiHeadAttention_init(a, d_model, h, dropout) ==
    IF d_model % h # 0
    THEN Raise("AssertionError")
    ELSE Then(Dropout_init(a + 5, dropout), LAMBDA d :
         Ok(AttentionFields(a, d_model, h, d)))

ResidualConnection_init(a, d_model, dropout) ==
    Then(LayerNormalization_init(a + 1, <<d_model>>), LAMBDA n :
    Then(Dropout_init(n.top + 1, dropout), LAMBDA d :
    Ok([cls |-> "ResidualConnection", id |-> a, top |-> d.top,
        d_model |-> d_model, norm |-> n, dropout |-> d])))

EncoderLayer_init(a, d_model, h, d_ff, dropout) ==
    Then(MultiHeadAttention_init(a + 1, d_model, h, dropout), LAMBDA m :
    Then(FeedForward_init(m.top + 1, d_model, d_ff, dropout), LAMBDA f :
    Then(ResidualConnection_init(f.top + 1, d_model, dropout), LAMBDA r1 :
    Then(ResidualConnection_init(r1.top + 1, d_model, dropout), LAMBDA r2 :
    Ok([cls |-> "EncoderLayer", id |-> a, top |-> r2.top,
        d_model |-> d_model, h |-> h, d_ff |-> d_ff,
        dropout |-> [cls |-> "float", p |-> dropout],
        multi_head_attention |-> m, feed_forward |-> f,
        residual_connection |-> r1, residual_connection_ff |-> r2])))))

\* layers is stored, then LayerNormalization() is called without d_model
Encoder_init(a, layers) ==
    Then(LayerNormalization_init(a + 1, <<>>), LAMBDA n :
    Ok([cls |-> "Encoder", id |-> a, top |-> n.top,
        layers |-> layers, norm |-> n]))

\* the names defined at module level (the globals a function body can read)
ModuleGlobals ==
    {"torch", "nn", "math", "InputEmbeddings", "PositionalEncoding",
     "LayerNormalization", "FeedForward", "MultiHeadAttention",
     "ResidualConnection", "EncoderLayer", "Encoder", "DecoderLayer",
     "Decoder", "ProjectionLayer", "Transformer", "build_transformer"}

\* reading a name that is neither a local nor a global raises NameError
Lookup(name, locals) ==
    IF name \in locals \cup ModuleGlobals THEN Ok(name) ELSE Raise("NameError")

\* the three blocks are stored, then ResidualConnection(d_model, dropout)
\* reads d_model, which is not a parameter of this constructor
DecoderLayer_init(a, self_attention_block, cross_attention_block, feed_forward_block, dropout) ==
    Then(Lookup("d_model", {"self", "self_attention_block",
                            "cross_attention_block", "feed_forward_block",
                            "dropout"}), LAMBDA d_model :
    Then(ResidualConnection_init(a + 1, d_model, dropout), LAMBDA r :
    Ok([cls |-> "DecoderLayer", id |-> a, top |-> r.top,
        self_attention_block |-> self_attention_block,
        cross_attention_block |-> cross_attention_block,
        feed_forward_block |-> feed_forward_block,
        residual_connections |-> r])))

Decoder_init(a, layers) ==
    Then(LayerNormalization_init(a + 1, <<>>), LAMBDA n :
    Ok([cls |-> "Decoder", id |-> a, top |-> n.top,
        layers |-> layers, norm |-> n]))

ProjectionLayer_init(a, d_model, vocab_size) ==
    Then(Linear_init(a + 1, d_model, vocab_size), LAMBDA l :
    Ok([cls |-> "ProjectionLayer", id |-> a, top |-> a + 1,
        d_model |-> d_model, vocab_size |-> vocab_size, linear |-> l]))

Transformer_init(a, encoder, decoder, src_embed, tgt_embed, src_pos, tgt_pos, projection_layer) ==
    Ok([cls |-> "Transformer", id |-> a, top |-> a,
        encoder |-> encoder, decoder |-> decoder,
        src_embed |-> src_embed, tgt_embed |-> tgt_embed,
        src_pos |-> src_pos, tgt_pos |-> tgt_pos,
        projection_layer |-> projection_layer])

(***************************************************************************)
(* Tensors.  A tensor is its shape and a term saying how its values were   *)
(* computed: the operation, its integer attributes (the id of the module   *)
(* whose parameters it read, a size) and the terms of its operands.        *)
(***************************************************************************)
Atom(name) == [op |-> name, n |-> <<>>, args |-> <<>>]

App(op, n, args) == [op |-> op, n |-> n, args |-> args]

Tensor(shape, v) == [shape |-> shape, v |-> v]

\* mask=None
NoMask == Tensor(<<>>, Atom("None"))

IsNone(t) == t.v.op = "None"

Last(s) == s[Len(s)]

MaxOf(a, b) == IF a >= b THEN a ELSE b

\* the number of elements of a tensor of the given shape
RECURSIVE Numel(_)
Numel(shape) == IF Len(shape) = 0 THEN 1 ELSE shape[1] * Numel(Tail(shape))

\* broadcasting: shapes are aligned at the right, a missing dimension is 1,
\* two sizes agree when they are equal or one of them is 1
PadLeft(s, n) ==
    [i \in 1..n |-> IF i <= n - Len(s) THEN 1 ELSE s[i - (n - Len(s))]]

BroadcastOK(s1, s2) ==
    LET n == MaxOf(Len(s1), Len(s2))
        a == PadLeft(s1, n)
        b == PadLeft(s2, n)
    IN  \A i \in 1..n : a[i] = b[i] \/ a[i] = 1 \/ b[i] = 1

BroadcastShape(s1, s2) ==
    LET n == MaxOf(Len(s1), Len(s2))
        a == PadLeft(s1, n)
        b == PadLeft(s2, n)
    IN  [i \in 1..n |-> IF a[i] = 1 THEN b[i] ELSE a[i]]

\* x + y
Add(x, y) ==
    IF ~BroadcastOK(x.shape, y.shape)
    THEN Raise("RuntimeError")
    ELSE Ok(Tensor(BroadcastShape(x.shape, y.shape),
                   App("add", <<>>, <<x.v, y.v>>)))

\* t.view(spec), spec with one -1: the missing size is what is left of the
\* number of elements
View(t, spec) ==
    LET known == Numel([i \in 1..Len(spec) |->
                           IF spec[i] = -1 THEN 1 ELSE spec[i]])
    IN  IF known = 0 \/ Numel(t.shape) % known # 0
        THEN Raise("RuntimeError")
        ELSE Ok(Tensor([i \in 1..Len(spec) |->
                           IF spec[i] = -1 THEN Numel(t.shape) \div known
                           ELSE spec[i]],
                       t.v))

\* t.transpose(i, j), dimensions counted from 0, negative ones from the end
Transpose(t, i, j) ==
    LET r  == Len(t.shape)
        i1 == (IF i < 0 THEN r + i ELSE i) + 1
        j1 == (IF j < 0 THEN r + j ELSE j) + 1
    IN  Tensor([k \in 1..r |-> IF k = i1 THEN t.shape[j1]
                               ELSE IF k = j1 THEN t.shape[i1]
                               ELSE t.shape[k]],
               App("transpose", <<>>, <<t.v>>))

\* torch.matmul of two tensors of the same rank >= 2: the leading dimensions
\* broadcast, the inner sizes must agree
Matmul(x, y) ==
    LET r  == Len(x.shape)
        bx == SubSeq(x.shape, 1, r - 2)
        by == SubSeq(y.shape, 1, r - 2)
    IN  IF x.shape[r] # y.shape[r - 1] \/ ~BroadcastOK(bx, by)
        THEN Raise("RuntimeError")
        ELSE Ok(Tensor(BroadcastShape(bx, by) \o <<x.shape[r - 1], y.shape[r]>>,
                       App("matmul", <<>>, <<x.v, y.v>>)))

\* calling a value: a float, a torch.Size and None are not callable
NotCallable == {"float", "Size", "None"}

(***************************************************************************)
(* forward of the torch.nn building blocks.                                *)
(***************************************************************************)
Linear_forward(l, x) ==
    IF Len(x.shape) = 0 \/ Last(x.shape) # l.inf
    THEN Raise("RuntimeError")
    ELSE Ok(Tensor([i \in 1..Len(x.shape) |->
                       IF i = Len(x.shape) THEN l.outf ELSE x.shape[i]],
                   App("linear", <<l.id>>, <<x.v>>)))

\* a module is built in training mode: dropout is the identity only for p = 0
Dropout_forward(d, x) ==
    IF d.cls \in NotCallable THEN Raise("TypeError")
    ELSE IF d.p = 0 THEN Ok(x)
    ELSE Ok(Tensor(x.shape, App("dropout", <<d.id, d.p>>, <<x.v>>)))

(***************************************************************************)
(* forward of the source's classes.                                        *)
(***************************************************************************)
\* token ids: ids.max is the largest id in the tensor
InputEmbeddings_forward(e, ids) ==
    IF ids.max >= e.embedding.num
    THEN Raise("IndexError")
    ELSE Ok(Tensor(ids.shape \o <<e.embedding.dim>>,
                   App("scale_sqrt", <<e.d_model>>,
                       <<App("embedding", <<e.embedding.id>>, <<ids.v>>)>>)))

\* pe[:, :n, :] of the registered buffer, shape (1, seq_len, d_model)
PeSlice(p, n) ==
    LET rows == IF n < p.seq_len THEN n ELSE p.seq_len
    IN  Tensor(<<1, rows, p.d_model>>, App("pe", <<p.id, rows>>, <<>>))

\* x.shape(1) calls the torch.Size object
PositionalEncoding_forward(p, x) ==
    IF "Size" \in NotCallable
    THEN Raise("TypeError")
    ELSE Then(Add(x, PeSlice(p, x.shape[2])),
              LAMBDA s : Dropout_forward(p.dropout, s))

LayerNormalization_forward(ln, x) ==
    IF ~BroadcastOK(<<ln.d_model>>, x.shape)
    THEN Raise("RuntimeError")
    ELSE Ok(Tensor(BroadcastShape(<<ln.d_model>>, x.shape),
                   App("layernorm", <<ln.id>>, <<x.v>>)))

Relu(x) == Tensor(x.shape, App("relu", <<>>, <<x.v>>))

\* linear1, relu, then self.dropout, which is the float the constructor kept
FeedForward_forward(f, x) ==
    Then(Linear_forward(f.linear1, x), LAMBDA l1 :
    Then(Dropout_forward(f.dropout, Relu(l1)), LAMBDA dr :
    Linear_forward(f.linear2, dr)))

\* masked_fill: the mask must broadcast to the shape of the scores
MaskFits(mshape, sshape) ==
    /\ BroadcastOK(mshape, sshape)
    /\ BroadcastShape(mshape, sshape) = sshape

\* scores / math.sqrt(d_k)
Scaled(scores, d_k) ==
    Tensor(scores.shape, App("div_sqrt", <<d_k>>, <<scores.v>>))

\* if mask is not None: scores.masked_fill(mask == 0, -1e9)
MaskedFillShape(scores, mask) ==
    IF IsNone(mask) THEN Ok(scores)
    ELSE IF ~MaskFits(mask.shape, scores.shape) THEN Raise("RuntimeError")
    ELSE Ok(Tensor(scores.shape,
                   App("masked_fill", <<>>, <<scores.v, mask.v>>)))

Softmax(scores) == Tensor(scores.shape, App("softmax", <<>>, <<scores.v>>))

\* if dropout is not None: dropout(scores)
OptionalDropout(dropout, scores) ==
    IF dropout.cls = "None" THEN Ok(scores)
    ELSE Dropout_forward(dropout, scores)

\* attention on shapes: the scaled scores, the optional masked_fill, softmax,
\* the optional dropout and the product with value; val is <<output, scores>>
attention_shapes(query, key, value, mask, dropout) ==
    Then(Matmul(query, Transpose(key, -2, -1)), LAMBDA raw :
    Then(MaskedFillShape(Scaled(raw, Last(query.shape)), mask), LAMBDA masked :
    Then(OptionalDropout(dropout, Softmax(masked)), LAMBDA scores :
    Then(Matmul(scores, value), LAMBDA out :
    Ok(<<out, scores>>)))))

\* t.view(t.shape[0], -1, h, d_k).transpose(1, 2)
SplitHeads(m, t) ==
    Then(View(t, <<t.shape[1], -1, m.h, m.d_k>>), LAMBDA w :
    Ok(Transpose(w, 1, 2)))

\* the three projections, the split into heads and the attention
ProjectAndAttend(m, q, k, v, mask) ==
    Then(Linear_forward(m.w_q, q), LAMBDA query0 :
    Then(Linear_forward(m.w_k, k), LAMBDA key0 :
    Then(Linear_forward(m.w_v, v), LAMBDA value0 :
    Then(SplitHeads(m, query0), LAMBDA query :
    Then(SplitHeads(m, key0), LAMBDA key :
    Then(SplitHeads(m, value0), LAMBDA value :
    attention_shapes(query, key, value, mask, m.dropout)))))))

MergeHeads_NoTranspose(m, x) ==
    Then(View(x, <<x.shape[1], -1, m.d_k>>), LAMBDA merged :
    Linear_forward(m.w_o, merged))

\* x.transpose(1, 2).contiguous().view(x.shape[0], -1, d_model), then w_o
MergeHeads(m, x) ==
    Then(View(Transpose(x, 1, 2), <<x.shape[1], -1, m.d_model>>),
         LAMBDA merged : Linear_forward(m.w_o, merged))

StoreScores_WritesWeights(m, att) ==
    IF ~att.ok THEN [self |-> m, out |-> att]
    ELSE [self |-> [m EXCEPT !.attention_scores = <<att.val[2]>>,
                             !.w_o.weight = "written"],
          out  |-> MergeHeads(m, att.val[1])]

\* x, self.attention_scores = attention(...): the scores are kept on the
\* instance; then the heads are merged
StoreScores(m, att) ==
    IF ~att.ok THEN [self |-> m, out |-> att]
    ELSE [self |-> [m EXCEPT !.attention_scores = <<att.val[2]>>],
          out  |-> MergeHeads(m, att.val[1])]

\* returns the instance as the call leaves it and the call's outcome
MultiHeadAttention_forward(m, q, k, v, mask) ==
    StoreScores(m, ProjectAndAttend(m, q, k, v, mask))

(***************************************************************************)
(* Sublayers.  ResidualConnection.forward is handed a function; the source *)
(* hands it lambdas that close over the layer (env) and the masks.  A call *)
(* of a sublayer returns the layer as the call leaves it, the outcome and  *)
(* the event of the call: the block called and the terms it was given.     *)
(***************************************************************************)
Sub(kind, enc, mask) == [kind |-> kind, enc |-> enc, mask |-> mask]

Event(blk, q, k, v, mask) ==
    [rc |-> 0, blk |-> blk, q |-> q.v, k |-> k.v, v |-> v.v, mask |-> mask.v]

\* the functions handed to a residual connection used on its own
ProbeApply(fn, arg) ==
    CASE fn = "identity" -> Ok(arg)
      [] fn = "g"        -> Ok(Tensor(arg.shape, App("g", <<>>, <<arg.v>>)))
      [] OTHER           -> Raise("ValueError")

\* the layer after one of its attention blocks (attribute name) was called
AfterBlock(env, name, r, e) ==
    [self |-> [env EXCEPT ![name] = r.self], out |-> r.out, ev |-> <<e>>]

CallSublayer(sub, env, arg) ==
    CASE sub.kind = "function" ->
           [self |-> env, out |-> ProbeApply(env.fn, arg),
            ev |-> <<Event(env.id, arg, NoMask, NoMask, NoMask)>>]
      [] sub.kind = "enc_attn" ->
           AfterBlock(env, "multi_head_attention",
               MultiHeadAttention_forward(env.multi_head_attention,
                                          arg, arg, arg, sub.mask),
               Event(env.multi_head_attention.id, arg, arg, arg, sub.mask))
      [] sub.kind = "enc_ff" ->
           [self |-> env, out |-> FeedForward_forward(env.feed_forward, arg),
            ev |-> <<Event(env.feed_forward.id, arg, NoMask, NoMask, NoMask)>>]
      [] sub.kind = "dec_self" ->
           AfterBlock(env, "self_attention_block",
               MultiHeadAttention_forward(env.self_attention_block,
                                          arg, arg, arg, sub.mask),
               Event(env.self_attention_block.id, arg, arg, arg, sub.mask))
      [] sub.kind = "dec_cross" ->
           AfterBlock(env, "cross_attention_block",
               MultiHeadAttention_forward(env.cross_attention_block,
                                          arg, sub.enc, sub.enc, sub.mask),
               Event(env.cross_attention_block.id, arg, sub.enc, sub.enc,
                     sub.mask))
      [] sub.kind = "dec_ff" ->
           [self |-> env,
            out |-> FeedForward_forward(env.feed_forward_block, arg),
            ev |-> <<Event(env.feed_forward_block.id, arg, NoMask, NoMask,
                           NoMask)>>]

\* the events of a wrap, each with the residual connection that wrapped it
Wrapped(rc, evs) == [i \in 1..Len(evs) |-> [evs[i] EXCEPT !.rc = rc.id]]

AddDropped_PostNorm(rc, x, s) ==
    [self |-> s.self, ev |-> Wrapped(rc, s.ev),
     out  |-> Then(s.out, LAMBDA y :
              Then(Dropout_forward(rc.dropout, y), LAMBDA d :
              Then(Add(x, d), LAMBDA a :
              LayerNormalization_forward(rc.norm, a))))]

\* x + self.dropout(<the sublayer's result>)
AddDropped(rc, x, s) ==
    [self |-> s.self, ev |-> Wrapped(rc, s.ev),
     out  |-> Then(s.out, LAMBDA y :
              Then(Dropout_forward(rc.dropout, y), LAMBDA d :
              Add(x, d)))]

NormThenSublayer_PostNorm(rc, x, sub, env, n) ==
    AddDropped_PostNorm(rc, x, CallSublayer(sub, env, x))

\* sublayer(self.norm(x)), n being the outcome of self.norm(x)
NormThenSublayer(rc, x, sub, env, n) ==
    IF ~n.ok THEN [self |-> env, out |-> n, ev |-> <<>>]
    ELSE AddDropped(rc, x, CallSublayer(sub, env, n.val))

\* x + self.dropout(sublayer(self.norm(x))); returns the layer the sublayer
\* closes over as the call leaves it, the outcome and the sublayer's event
ResidualConnection_forward(rc, x, sub, env) ==
    NormThenSublayer(rc, x, sub, env, LayerNormalization_forward(rc.norm, x))

\* r, then F of r when r did not raise; the events add up
PrependEv(evs, r) == [r EXCEPT !.ev = evs \o @]

ThenR(r, F(_)) == IF r.out.ok THEN PrependEv(r.ev, F(r)) ELSE r

EncoderLayer_forward(l, x, mask) ==
    ThenR(ResidualConnection_forward(l.residual_connection, x,
                                     Sub("enc_attn", NoMask, mask), l),
          LAMBDA r1 :
    ResidualConnection_forward(r1.self.residual_connection_ff, r1.out.val,
                               Sub("enc_ff", NoMask, NoMask), r1.self))

DecoderLayer_forward(l, x, enc_output, src_mask, tgt_mask) ==
    ThenR(ResidualConnection_forward(l.residual_connections, x,
                                     Sub("dec_self", NoMask, tgt_mask), l),
          LAMBDA r1 :
    ThenR(ResidualConnection_forward(r1.self.residual_connections, r1.out.val,
                                     Sub("dec_cross", enc_output, src_mask),
                                     r1.self),
          LAMBDA r2 :
    ResidualConnection_forward(r2.self.residual_connections, r2.out.val,
                               Sub("dec_ff", NoMask, NoMask), r2.self)))

\* the event of a stack calling one of its layers, or its final norm
LayerEvent(m, x, enc_output, src_mask, tgt_mask) ==
    [callee |-> m.id, x |-> x.v, enc |-> enc_output.v, src_mask |-> src_mask.v,
     tgt_mask |-> tgt_mask.v]

\* layer(x, mask): only an EncoderLayer takes these arguments
CallEncoderLayer(layer, x, mask) ==
    IF layer.cls = "EncoderLayer"
    THEN EncoderLayer_forward(layer, x, mask)
    ELSE [self |-> layer, out |-> Raise("TypeError"), ev |-> <<>>]

\* for layer in layers: x = layer(x, mask); the layers from the i-th on
RECURSIVE EncoderLayersLoop(_, _, _, _, _)
RECURSIVE EncoderLayersNext(_, _, _, _, _)
EncoderLayersLoop(layers, i, x, mask, evs) ==
    IF i > Len(layers) THEN [layers |-> layers, out |-> Ok(x), ev |-> evs]
    ELSE EncoderLayersNext(layers, i, mask,
             Append(evs, LayerEvent(layers[i], x, NoMask, mask, NoMask)),
             CallEncoderLayer(layers[i], x, mask))

EncoderLayersNext(layers, i, mask, evs, r) ==
    IF ~r.out.ok
    THEN [layers |-> [layers EXCEPT ![i] = r.self], out |-> r.out, ev |-> evs]
    ELSE EncoderLayersLoop([layers EXCEPT ![i] = r.self], i + 1, r.out.val,
                           mask, evs)

\* return self.norm(x), r being what the loop left
FinalNorm(stack, name, r) ==
    [self |-> [stack EXCEPT ![name] = r.layers],
     out  |-> Then(r.out, LAMBDA x : LayerNormalization_forward(stack.norm, x)),
     ev   |-> IF r.out.ok
              THEN Append(r.ev, LayerEvent(stack.norm, r.out.val, NoMask,
                                           NoMask, NoMask))
              ELSE r.ev]

\* the loop reads self.encoder_layers; the constructor stored self.layers
Encoder_forward(e, x, mask) ==
    IF "encoder_layers" \notin DOMAIN e
    THEN [self |-> e, out |-> Raise("AttributeError"), ev |-> <<>>]
    ELSE FinalNorm(e, "encoder_layers",
                   EncoderLayersLoop(e.encoder_layers, 1, x, mask, <<>>))

\* layer(x, enc_output, src_mask, tgt_mask): only a DecoderLayer takes these
CallDecoderLayer(layer, x, enc_output, src_mask, tgt_mask) ==
    IF layer.cls = "DecoderLayer"
    THEN DecoderLayer_forward(layer, x, enc_output, src_mask, tgt_mask)
    ELSE [self |-> layer, out |-> Raise("TypeError"), ev |-> <<>>]

RECURSIVE DecoderLayersLoop(_, _, _, _, _, _, _)
RECURSIVE DecoderLayersNext(_, _, _, _, _, _, _)
DecoderLayersLoop(layers, i, x, enc_output, src_mask, tgt_mask, evs) ==
    IF i > Len(layers) THEN [layers |-> layers, out |-> Ok(x), ev |-> evs]
    ELSE DecoderLayersNext(layers, i, enc_output, src_mask, tgt_mask,
             Append(evs, LayerEvent(layers[i], x, enc_output, src_mask,
                                    tgt_mask)),
             CallDecoderLayer(layers[i], x, enc_output, src_mask, tgt_mask))

DecoderLayersNext(layers, i, enc_output, src_mask, tgt_mask, evs, r) ==
    IF ~r.out.ok
    THEN [layers |-> [layers EXCEPT ![i] = r.self], out |-> r.out, ev |-> evs]
    ELSE DecoderLayersLoop([layers EXCEPT ![i] = r.self], i + 1, r.out.val,
                           enc_output, src_mask, tgt_mask, evs)

Decoder_forward(d, x, enc_output, src_mask, tgt_mask) ==
    FinalNorm(d, "layers",
              DecoderLayersLoop(d.layers, 1, x, enc_output, src_mask, tgt_mask,
                                <<>>))

\* log_softmax(linear(x))
ProjectionLayer_forward(p, x) ==
    Then(Linear_forward(p.linear, x), LAMBDA l :
    Ok(Tensor(l.shape, App("log_softmax", <<>>, <<l.v>>))))

\* the model after its stack (attribute name) was called
AfterStack(t, name, r) ==
    [self |-> [t EXCEPT ![name] = r.self], out |-> r.out, ev |-> r.ev]

\* self.encoder(src, src_mask), p being the outcome of embedding and position
CallEncoder(t, p, src_mask) ==
    IF ~p.ok THEN [self |-> t, out |-> p, ev |-> <<>>]
    ELSE IF t.encoder.cls \in NotCallable
    THEN [self |-> t, out |-> Raise("TypeError"), ev |-> <<>>]
    ELSE AfterStack(t, "encoder", Encoder_forward(t.encoder, p.val, src_mask))

Transformer_encode(t, src, src_mask) ==
    CallEncoder(t,
        Then(InputEmbeddings_forward(t.src_embed, src), LAMBDA e :
             PositionalEncoding_forward(t.src_pos, e)),
        src_mask)

CallDecoder(t, p, encoder_output, src_mask, tgt_mask) ==
    IF ~p.ok THEN [self |-> t, out |-> p, ev |-> <<>>]
    ELSE IF t.decoder.cls \in NotCallable
    THEN [self |-> t, out |-> Raise("TypeError"), ev |-> <<>>]
    ELSE AfterStack(t, "decoder",
             Decoder_forward(t.decoder, p.val, encoder_output, src_mask,
                             tgt_mask))

Transformer_decode(t, encoder_output, src_mask, tgt, tgt_mask) ==
    CallDecoder(t,
        Then(InputEmbeddings_forward(t.tgt_embed, tgt), LAMBDA e :
             PositionalEncoding_forward(t.tgt_pos, e)),
        encoder_output, src_mask, tgt_mask)

Transformer_project(t, x) ==
    [self |-> t, out |-> ProjectionLayer_forward(t.projection_layer, x),
     ev |-> <<>>]

(***************************************************************************)
(* build_transformer.                                                      *)
(***************************************************************************)
\* the first loop: i iterations left, acc the encoder_block list so far
RECURSIVE EncoderBlockLoop(_, _, _, _)
EncoderBlockLoop(a, i, acc, cfg) ==
    IF i = 0 THEN Ok([list |-> acc, top |-> a - 1])
    ELSE
    Then(MultiHeadAttention_init(a, cfg.d_model, cfg.h, cfg.dropout),
         LAMBDA encoder_self_attention_block :
    Then(FeedForward_init(encoder_self_attention_block.top + 1, cfg.d_model,
                          cfg.d_ff, cfg.dropout),
         LAMBDA feed_forward_block :
    Then(EncoderLayer_init(feed_forward_block.top + 1, cfg.d_model, cfg.h,
                           cfg.d_ff, cfg.dropout),
         LAMBDA l :
    EncoderBlockLoop(l.top + 1, i - 1, Append(acc, l), cfg))))

\* one iteration of the second loop: two attention blocks, a feed-forward
\* block and the DecoderLayer made of them
DecoderBlockStep(a, cfg) ==
    Then(MultiHeadAttention_init(a, cfg.d_model, cfg.h, cfg.dropout),
         LAMBDA decoder_self_attention_block :
    Then(MultiHeadAttention_init(decoder_self_attention_block.top + 1,
                                 cfg.d_model, cfg.h, cfg.dropout),
         LAMBDA decoder_cross_attention_block :
    Then(FeedForward_init(decoder_cross_attention_block.top + 1, cfg.d_model,
                          cfg.d_ff, cfg.dropout),
         LAMBDA feed_forward_block :
    DecoderLayer_init(feed_forward_block.top + 1,
                      decoder_self_attention_block,
                      decoder_cross_attention_block, feed_forward_block,
                      cfg.dropout))))

RECURSIVE DecoderBlockLoop(_, _, _, _)
DecoderBlockLoop(a, i, acc, cfg) ==
    IF i = 0 THEN Ok([list |-> acc, top |-> a - 1])
    ELSE Then(DecoderBlockStep(a, cfg), LAMBDA l :
         DecoderBlockLoop(l.top + 1, i - 1, Append(acc, l), cfg))

\* nn.init.xavier_uniform_ on every parameter with more than one dimension:
\* the weight matrices of the Linear and Embedding modules
XavierLinear(l) == [l EXCEPT !.weight = "xavier"]

XavierAttention(m) ==
    [m EXCEPT !.w_q = XavierLinear(@), !.w_k = XavierLinear(@),
              !.w_v = XavierLinear(@), !.w_o = XavierLinear(@)]

XavierFeedForward(f) ==
    [f EXCEPT !.linear1 = XavierLinear(@), !.linear2 = XavierLinear(@)]

XavierEncoderLayer(l) ==
    [l EXCEPT !.multi_head_attention = XavierAttention(@),
              !.feed_forward = XavierFeedForward(@)]

XavierDecoderLayer(l) ==
    [l EXCEPT !.self_attention_block = XavierAttention(@),
              !.cross_attention_block = XavierAttention(@),
              !.feed_forward_block = XavierFeedForward(@)]

XavierTransformer(t) ==
    [t EXCEPT
       !.encoder.layers = [i \in DOMAIN @ |-> XavierEncoderLayer(@[i])],
       !.decoder.layers = [i \in DOMAIN @ |-> XavierDecoderLayer(@[i])],
       !.src_embed.embedding = XavierLinear(@),
       !.tgt_embed.embedding = XavierLinear(@),
       !.projection_layer.linear = XavierLinear(@)]

build_transformer(cfg) ==
    Then(InputEmbeddings_init(1, cfg.d_model, cfg.src_vocab_size),
         LAMBDA src_embed :
    Then(InputEmbeddings_init(src_embed.top + 1, cfg.d_model,
                              cfg.tgt_vocab_size),
         LAMBDA tgt_embed :
    Then(PositionalEncoding_init(tgt_embed.top + 1, cfg.d_model,
                                 cfg.src_seq_len, cfg.dropout),
         LAMBDA src_pos :
    Then(PositionalEncoding_init(src_pos.top + 1, cfg.d_model,
                                 cfg.tgt_seq_len, cfg.dropout),
         LAMBDA tgt_pos :
    Then(EncoderBlockLoop(tgt_pos.top + 1, cfg.N, <<>>, cfg),
         LAMBDA encoder_block :
    Then(DecoderBlockLoop(encoder_block.top + 1, cfg.N, <<>>, cfg),
         LAMBDA decoder_block :
    Then(Encoder_init(decoder_block.top + 1, encoder_block.list),
         LAMBDA encoder :
    Then(Decoder_init(encoder.top + 1, decoder_block.list),
         LAMBDA decoder :
    Then(ProjectionLayer_init(decoder.top + 1, cfg.d_model,
                              cfg.tgt_vocab_size),
         LAMBDA projection_layer :
    Then(Transformer_init(projection_layer.top + 1, encoder, decoder,
                          src_embed, tgt_embed, src_pos, tgt_pos,
                          projection_layer),
         LAMBDA transformer :
    Ok(XavierTransformer(transformer))))))))))))

(***************************************************************************)
(* MultiHeadAttention.attention on values, for one batch entry and one     *)
(* head: query is a matrix of query_len rows of d_k integers, key and      *)
(* value have key_len rows, mask is None or a matrix of 1 or query_len     *)
(* rows of key_len entries (a row of 1 broadcasts).  A score is kept       *)
(* exactly, as the pair of the integer num and d, meaning num / sqrt(d).   *)
(***************************************************************************)
\* the fill value of masked_fill, -1e9
NegInf == -1000000000

Score(num, d) == [num |-> num, d |-> d]

RECURSIVE DotFrom(_, _, _)
DotFrom(u, w, c) ==
    IF c > Len(u) THEN 0 ELSE u[c] * w[c] + DotFrom(u, w, c + 1)

\* torch.matmul(query, key.transpose(-2, -1)) / math.sqrt(d_k)
ScaledScores(query, key, d_k) ==
    [i \in 1..Len(query) |->
        [j \in 1..Len(key) |-> Score(DotFrom(query[i], key[j], 1), d_k)]]

\* the entry of the mask that broadcasts to position (i, j)
MaskAt(mask, i, j) == IF Len(mask.m) = 1 THEN mask.m[1][j] ELSE mask.m[i][j]

masked_fill_WhereNonZero(attention_scores, mask) ==
    [i \in 1..Len(attention_scores) |->
        [j \in 1..Len(attention_scores[i]) |->
            IF MaskAt(mask, i, j) # 0 THEN Score(NegInf, 1)
            ELSE attention_scores[i][j]]]

\* attention_scores.masked_fill(mask == 0, -1e9)
masked_fill(attention_scores, mask) ==
    [i \in 1..Len(attention_scores) |->
        [j \in 1..Len(attention_scores[i]) |->
            IF MaskAt(mask, i, j) = 0 THEN Score(NegInf, 1)
            ELSE attention_scores[i][j]]]

\* torch.softmax(attention_scores, dim=-1): each entry is a function of its
\* whole row
softmax(attention_scores) ==
    [i \in 1..Len(attention_scores) |->
        [j \in 1..Len(attention_scores[i]) |->
            [softmax_of |-> attention_scores[i], at |-> j]]]

\* dropout(attention_scores) of a module in training mode
DropScores(dropout, attention_scores) ==
    IF dropout.p = 0 THEN attention_scores
    ELSE [i \in 1..Len(attention_scores) |->
             [j \in 1..Len(attention_scores[i]) |->
                 [dropout_of |-> attention_scores[i][j], p |-> dropout.p,
                  at |-> <<i, j>>]]]

\* torch.matmul(attention_scores, value): entry (i, c) is the sum over j of
\* attention_scores[i][j] * value[j][c]
WeightedValues(attention_scores, value) ==
    [i \in 1..Len(attention_scores) |->
        [c \in 1..Len(value[1]) |->
            [weights |-> attention_scores[i],
             column  |-> [j \in 1..Len(value) |-> value[j][c]]]]]

\* a mask tensor of the given entries
MaskTensor(m) == [cls |-> "Tensor", m |-> m]

\* mask and dropout are None (NoObj) when not given
attention(query, key, value, mask, dropout) ==
    LET d_k    == Len(query[1])
        scaled == ScaledScores(query, key, d_k)
        masked == IF mask.cls # "None" THEN masked_fill(scaled, mask) ELSE scaled
        soft   == softmax(masked)
        attention_scores ==
                  IF dropout.cls # "None" THEN DropScores(dropout, soft) ELSE soft
    IN  <<WeightedValues(attention_scores, value), attention_scores>>

(***************************************************************************)
(* The client: the configurations and arguments it calls with.             *)
(***************************************************************************)
Configs ==
    [src_vocab_size : 1..MaxVocab, tgt_vocab_size : 1..MaxVocab,
     d_model : 1..MaxDModel, h : 1..MaxH, d_ff : 1..MaxDff, N : 0..MaxN,
     dropout : DropoutVals,
     src_seq_len : 1..MaxSeqLen, tgt_seq_len : 1..MaxSeqLen]

\* the spec's valid configurations: sizes positive, N >= 1, h divides
\* d_model, dropout in [0, 1]
ValidConfig(cfg) ==
    /\ cfg.src_vocab_size > 0 /\ cfg.tgt_vocab_size > 0
    /\ cfg.d_model > 0 /\ cfg.h > 0 /\ cfg.d_ff > 0
    /\ cfg.src_seq_len > 0 /\ cfg.tgt_seq_len > 0
    /\ cfg.N >= 1
    /\ cfg.d_model % cfg.h = 0
    /\ cfg.dropout >= 0 /\ cfg.dropout <= 100

NoCall == [op |-> "none"]

Init ==
    /\ pc = "idle"
    /\ call = NoCall
    /\ self = NoObj
    /\ ret = NoRet
    /\ ev = <<>>

\* a constructor call ends: the client holds the instance, or nothing when
\* the constructor raised
Constructed(c, r) ==
    /\ pc' = "constructed"
    /\ call' = c
    /\ self' = (IF r.ok THEN r.val ELSE NoObj)
    /\ ret' = r
    /\ ev' = <<>>

\* a forward call on the instance ends
Called(c, r) ==
    /\ pc' = "called"
    /\ call' = c
    /\ self' = r.self
    /\ ret' = r.out
    /\ ev' = r.ev

CallBuildTransformer ==
    /\ pc = "idle"
    /\ \E cfg \in Configs :
        Constructed([op |-> "build_transformer", cfg |-> cfg],
                    build_transformer(cfg))

NewMultiHeadAttention ==
    /\ pc = "idle"
    /\ \E d_model \in 1..MaxDModel, h \in 1..MaxH, dropout \in DropoutVals :
        Constructed([op |-> "MultiHeadAttention", d_model |-> d_model,
                     h |-> h, dropout |-> dropout],
                    MultiHeadAttention_init(1, d_model, h, dropout))

NewEncoderLayer ==
    /\ pc = "idle"
    /\ \E d_model \in 1..MaxDModel, h \in 1..MaxH, d_ff \in 1..MaxDff,
       dropout \in DropoutVals :
        Constructed([op |-> "EncoderLayer", d_model |-> d_model, h |-> h,
                     d_ff |-> d_ff, dropout |-> dropout],
                    EncoderLayer_init(1, d_model, h, d_ff, dropout))

\* the blocks are built as build_transformer builds them
NewDecoderLayer ==
    /\ pc = "idle"
    /\ \E d_model \in 1..MaxDModel, h \in 1..MaxH, d_ff \in 1..MaxDff,
       dropout \in DropoutVals :
        Constructed([op |-> "DecoderLayer", d_model |-> d_model, h |-> h,
                     d_ff |-> d_ff, dropout |-> dropout],
                    DecoderBlockStep(1, [d_model |-> d_model, h |-> h,
                                         d_ff |-> d_ff, dropout |-> dropout]))

\* the layer lists a client can hold: n layers built as build_transformer's
\* first loop builds them
LayerList(n, d_model, h, d_ff, dropout) ==
    EncoderBlockLoop(1, n, <<>>, [d_model |-> d_model, h |-> h, d_ff |-> d_ff,
                                  dropout |-> dropout])

NewEncoder ==
    /\ pc = "idle"
    /\ \E n \in 0..MaxN, d_model \in 1..MaxDModel, h \in 1..MaxH,
       d_ff \in 1..MaxDff, dropout \in DropoutVals :
        LET ll == LayerList(n, d_model, h, d_ff, dropout)
        IN  /\ ll.ok
            /\ Constructed([op |-> "Encoder", layers |-> ll.val.list],
                           Encoder_init(ll.val.top + 1, ll.val.list))

\* no DecoderLayer can be built, so the list holds whatever modules the
\* client has
NewDecoder ==
    /\ pc = "idle"
    /\ \E n \in 0..MaxN, d_model \in 1..MaxDModel, h \in 1..MaxH,
       d_ff \in 1..MaxDff, dropout \in DropoutVals :
        LET ll == LayerList(n, d_model, h, d_ff, dropout)
        IN  /\ ll.ok
            /\ Constructed([op |-> "Decoder", layers |-> ll.val.list],
                           Decoder_init(ll.val.top + 1, ll.val.list))

NewResidualConnection ==
    /\ pc = "idle"
    /\ \E d_model \in 1..MaxDModel, dropout \in DropoutVals :
        Constructed([op |-> "ResidualConnection", d_model |-> d_model,
                     dropout |-> dropout],
                    ResidualConnection_init(1, d_model, dropout))

NewPositionalEncoding ==
    /\ pc = "idle"
    /\ \E d_model \in 1..MaxDModel, seq_len \in 1..MaxSeqLen,
       dropout \in DropoutVals :
        Constructed([op |-> "PositionalEncoding", d_model |-> d_model,
                     seq_len |-> seq_len, dropout |-> dropout],
                    PositionalEncoding_init(1, d_model, seq_len, dropout))

\* build_transformer never returns, so a client that wants a Transformer
\* assembles one from the parts it can build; it has no Encoder and no
\* Decoder to give it
AssembleTransformer(d_model, vocab_size, seq_len, dropout) ==
    Then(InputEmbeddings_init(1, d_model, vocab_size), LAMBDA src_embed :
    Then(InputEmbeddings_init(src_embed.top + 1, d_model, vocab_size),
         LAMBDA tgt_embed :
    Then(PositionalEncoding_init(tgt_embed.top + 1, d_model, seq_len, dropout),
         LAMBDA src_pos :
    Then(PositionalEncoding_init(src_pos.top + 1, d_model, seq_len, dropout),
         LAMBDA tgt_pos :
    Then(ProjectionLayer_init(tgt_pos.top + 1, d_model, vocab_size),
         LAMBDA projection_layer :
    Transformer_init(projection_layer.top + 1, NoObj, NoObj, src_embed,
                     tgt_embed, src_pos, tgt_pos, projection_layer))))))

NewTransformer ==
    /\ pc = "idle"
    /\ \E d_model \in 1..MaxDModel, vocab_size \in 1..MaxVocab,
       seq_len \in 1..MaxSeqLen, dropout \in DropoutVals :
        Constructed([op |-> "Transformer", d_model |-> d_model,
                     vocab_size |-> vocab_size, seq_len |-> seq_len,
                     dropout |-> dropout],
                    AssembleTransformer(d_model, vocab_size, seq_len, dropout))

\* the tensors a client calls with
X(name, shape) == Tensor(shape, Atom(name))

\* a tensor of token ids, the largest of them max
Ids(name, shape, max) == [shape |-> shape, v |-> Atom(name), max |-> max]

\* mask arguments for scores of shape (b, h, lq, lk): none, a padding mask,
\* a full mask, and, with the smallest tensors, a mask one key too wide
Masks(b, lq, lk) ==
    {NoMask, X("mask", <<b, 1, 1, lk>>), X("mask", <<1, 1, lq, lk>>)}
    \cup (IF b = 1 /\ lq = 1 /\ lk = 1
          THEN {X("mask", <<1, 1, lq, lk + 1>>)} ELSE {})

Holds(cls) == pc \in {"constructed", "called"} /\ self.cls = cls

MHAForward ==
    /\ Holds("MultiHeadAttention")
    /\ \E b \in BatchSizes, lq \in 1..MaxLen, lk \in 1..MaxLen :
       \E mask \in Masks(b, lq, lk) :
        LET q == X("q", <<b, lq, self.d_model>>)
            k == X("k", <<b, lk, self.d_model>>)
            v == X("v", <<b, lk, self.d_model>>)
            r == MultiHeadAttention_forward(self, q, k, v, mask)
        IN  Called([op |-> "MultiHeadAttention.forward", q |-> q, k |-> k,
                    v |-> v, mask |-> mask],
                   [self |-> r.self, out |-> r.out, ev |-> <<>>])

EncoderLayerForward ==
    /\ Holds("EncoderLayer")
    /\ \E b \in BatchSizes, l \in 1..MaxLen :
       \E mask \in Masks(b, l, l) :
        LET x == X("x", <<b, l, self.d_model>>)
        IN  Called([op |-> "EncoderLayer.forward", x |-> x, mask |-> mask],
                   EncoderLayer_forward(self, x, mask))

\* a residual connection on its own, wrapping a function fn that records
\* nothing but is seen in the events
ResidualForward ==
    /\ Holds("ResidualConnection")
    /\ \E b \in BatchSizes, l \in 1..MaxLen,
          d \in {1, self.d_model, MaxDModel},
          fn \in {"identity", "g", "raise"} :
        LET x == X("x", <<b, l, d>>)
            r == ResidualConnection_forward(self, x, Sub("function", NoMask, NoMask),
                                            [cls |-> "function", id |-> 0,
                                             fn |-> fn])
        IN  Called([op |-> "ResidualConnection.forward", x |-> x, fn |-> fn],
                   [self |-> self, out |-> r.out, ev |-> r.ev])

PositionalForward ==
    /\ Holds("PositionalEncoding")
    /\ \E b \in BatchSizes, l \in 1..(MaxLen + 1) :
        LET x == X("x", <<b, l, self.d_model>>)
        IN  Called([op |-> "PositionalEncoding.forward", x |-> x],
                   [self |-> self, out |-> PositionalEncoding_forward(self, x),
                    ev |-> <<>>])

Encode ==
    /\ Holds("Transformer")
    /\ \E b \in BatchSizes, l \in 1..MaxLen, max \in 0..MaxVocab :
       \E mask \in {NoMask, X("src_mask", <<b, 1, 1, l>>)} :
        Called([op |-> "encode"],
               Transformer_encode(self, Ids("src", <<b, l>>, max), mask))

Decode ==
    /\ Holds("Transformer")
    /\ \E b \in BatchSizes, ls \in 1..MaxLen, lt \in 1..MaxLen,
          max \in 0..MaxVocab :
       \E masks \in {<<NoMask, NoMask>>,
                     <<X("src_mask", <<b, 1, 1, ls>>),
                       X("tgt_mask", <<b, 1, lt, lt>>)>>} :
        Called([op |-> "decode"],
               Transformer_decode(self,
                   X("encoder_output", <<b, ls, self.src_embed.d_model>>),
                   masks[1], Ids("tgt", <<b, lt>>, max), masks[2]))

Project ==
    /\ Holds("Transformer")
    /\ \E b \in BatchSizes, l \in 1..MaxLen, d \in 1..MaxDModel :
        Called([op |-> "project"],
               Transformer_project(self, X("x", <<b, l, d>>)))

NextBuild ==
    \/ CallBuildTransformer
    \/ NewMultiHeadAttention
    \/ NewEncoderLayer
    \/ NewDecoderLayer
    \/ NewEncoder
    \/ NewDecoder

SpecBuild == Init /\ [][NextBuild]_vars

NextForward ==
    \/ NewMultiHeadAttention
    \/ NewEncoderLayer
    \/ NewResidualConnection
    \/ NewPositionalEncoding
    \/ NewTransformer
    \/ MHAForward
    \/ EncoderLayerForward
    \/ ResidualForward
    \/ PositionalForward
    \/ Encode
    \/ Decode
    \/ Project

SpecForward == Init /\ [][NextForward]_vars

(***************************************************************************)
(* A client of the static method attention.                                *)
(***************************************************************************)
\* largest d_k of the arguments
MaxDk == 2

\* the integer matrices the client passes: entry (i, c) of a matrix of r
\* rows and n columns grown from the seed a
Matrix(r, n, a) == [i \in 1..r |-> [c \in 1..n |-> a * i + c - 2]]

Seeds == {-1, 2}

\* the non-zero mask entries the client uses: 1, and 2
NonZeroVals == {1, 2}

\* the masks of one row (a padding mask) or query_len rows, every entry 0
\* or the non-zero value nz
MaskMatrices(query_len, key_len) ==
    {MaskTensor(m) :
        m \in UNION {[1..r -> [1..key_len -> {0, nz}]] :
                         r \in {1, query_len}, nz \in NonZeroVals}}

CallAttention ==
    /\ pc = "idle"
    /\ \E query_len \in 1..MaxLen, key_len \in 1..MaxLen, d_k \in 1..MaxDk,
          a \in Seeds, b \in Seeds,
          dropout \in {NoObj, Dropout_init(1, 50).val} :
       \E mask \in {NoObj} \cup MaskMatrices(query_len, key_len) :
        LET query == Matrix(query_len, d_k, a)
            key   == Matrix(key_len, d_k, b)
            value == Matrix(key_len, d_k, 1)
        IN  /\ pc' = "called"
            /\ call' = [op |-> "attention", query |-> query, key |-> key,
                        value |-> value, mask |-> mask, dropout |-> dropout]
            /\ ret' = Ok(attention(query, key, value, mask, dropout))
            /\ UNCHANGED <<self, ev>>

NextAttention == CallAttention

SpecAttention == Init /\ [][NextAttention]_vars

(***************************************************************************)
(* Properties of construction, checked under SpecBuild.                    *)
(***************************************************************************)
Built(op) == pc = "constructed" /\ call.op = op

\* C1: for every valid configuration (sizes positive, N >= 1, h divides
\* d_model, dropout in [0, 1]) build_transformer raises nothing and returns a
\* Transformer whose encoder stack and decoder stack hold exactly N layers.
C1_BuildReturnsNLayers ==
    (Built("build_transformer") /\ ValidConfig(call.cfg))
        => /\ ret.ok
           /\ ret.val.cls = "Transformer"
           /\ Len(ret.val.encoder.layers) = call.cfg.N
           /\ Len(ret.val.decoder.layers) = call.cfg.N

\* C2: constructing a multi-head attention block with d_model % h # 0 fails
\* with the assertion's error; build_transformer with such (d_model, h) and
\* N >= 1 raises and returns nothing; with d_model % h = 0 the assertion
\* raises nothing and d_k * h = d_model.
C2_IndivisibleHeadsRejected ==
    /\ (Built("MultiHeadAttention") /\ call.d_model % call.h # 0)
           => (~ret.ok /\ ret.exc = "AssertionError" /\ self = NoObj)
    /\ (Built("build_transformer") /\ call.cfg.d_model % call.cfg.h # 0
            /\ call.cfg.N >= 1)
           => (~ret.ok /\ self = NoObj)
    /\ (Built("MultiHeadAttention") /\ call.d_model % call.h = 0)
           => /\ ret.exc # "AssertionError"
              /\ (ret.ok => ret.val.d_k * ret.val.h = ret.val.d_model)

\* build_transformer stopped by the assertion of the first attention block
C2_Witness ==
    /\ Built("build_transformer")
    /\ call.cfg.d_model % call.cfg.h # 0 /\ call.cfg.N >= 1
    /\ ret.exc = "AssertionError"

\* the layers a stack called, in order, and then its final norm, each layer
\* with the same masks and encoder output
AppliedInOrder(stack, layers, r, enc_output, src_mask, tgt_mask) ==
    /\ r.out.ok
    /\ Len(r.ev) = Len(layers) + 1
    /\ \A i \in 1..Len(layers) :
           /\ r.ev[i].callee = layers[i].id
           /\ r.ev[i].enc = enc_output.v
           /\ r.ev[i].src_mask = src_mask.v
           /\ r.ev[i].tgt_mask = tgt_mask.v
    /\ r.ev[Len(layers) + 1].callee = stack.norm.id

\* the arguments the properties below call a stack or a layer with
ProbeWidth(layers) == IF Len(layers) = 0 THEN 1 ELSE layers[1].d_model

ProbeX(d) == X("x", <<1, 1, d>>)

ProbeEnc(d) == X("encoder_output", <<1, 1, d>>)

ProbeSrcMask == X("src_mask", <<1, 1, 1, 1>>)

ProbeTgtMask == X("tgt_mask", <<1, 1, 1, 1>>)

\* C3: the encoder stack's forward applies every layer stored at
\* construction exactly once, in stored order, each with the same mask, and
\* then one final normalization; the decoder stack's forward does the same.
C3_StackAppliesLayersInOrder ==
    /\ Built("Encoder")
           => /\ ret.ok
              /\ LET d == ProbeWidth(call.layers)
                 IN  AppliedInOrder(ret.val, call.layers,
                         Encoder_forward(ret.val, ProbeX(d), ProbeSrcMask),
                         NoMask, ProbeSrcMask, NoMask)
    /\ Built("Decoder")
           => /\ ret.ok
              /\ LET d == ProbeWidth(call.layers)
                 IN  AppliedInOrder(ret.val, call.layers,
                         Decoder_forward(ret.val, ProbeX(d), ProbeEnc(d),
                                         ProbeSrcMask, ProbeTgtMask),
                         ProbeEnc(d), ProbeSrcMask, ProbeTgtMask)

\* the three sublayer calls of a decoder layer's forward, r being what the
\* forward left
DecoderSublayerOrder(l, r, enc_output, src_mask, tgt_mask) ==
    /\ Len(r.ev) = 3
    /\ r.ev[1].blk = l.self_attention_block.id
    /\ r.ev[1].k = r.ev[1].q /\ r.ev[1].v = r.ev[1].q
    /\ r.ev[1].mask = tgt_mask.v
    /\ r.ev[2].blk = l.cross_attention_block.id
    /\ r.ev[2].k = enc_output.v /\ r.ev[2].v = enc_output.v
    /\ r.ev[2].q # enc_output.v
    /\ r.ev[2].mask = src_mask.v
    /\ r.ev[3].blk = l.feed_forward_block.id

\* C4: a decoder layer's forward runs self-attention (q = k = v = the decoder
\* state, tgt_mask), then cross-attention (q = the decoder state, k = v = the
\* encoder output, src_mask), then feed-forward; and every layer of the
\* decoder stack is given the same encoder output.
C4_DecoderLayerOrder ==
    /\ Built("DecoderLayer")
           => /\ ret.ok
              /\ LET d == call.d_model
                 IN  DecoderSublayerOrder(ret.val,
                         DecoderLayer_forward(ret.val, ProbeX(d), ProbeEnc(d),
                                              ProbeSrcMask, ProbeTgtMask),
                         ProbeEnc(d), ProbeSrcMask, ProbeTgtMask)
    /\ Built("Decoder")
           => /\ ret.ok
              /\ LET d == ProbeWidth(call.layers)
                     r == Decoder_forward(ret.val, ProbeX(d), ProbeEnc(d),
                                          ProbeSrcMask, ProbeTgtMask)
                 IN  \A i \in 1..Len(call.layers) :
                         r.ev[i].enc = ProbeEnc(d).v

\* the residual connections a layer holds for its sublayer wraps
ResidualsOf(layer) ==
    IF layer.cls = "EncoderLayer"
    THEN {layer.residual_connection, layer.residual_connection_ff}
    ELSE {layer.residual_connections}

\* C5: each sublayer wrap of a layer has its own residual connection, with
\* its own normalization parameters and dropout: 2 distinct instances in an
\* encoder layer, 3 in a decoder layer.
C5_OwnResidualPerSublayer ==
    /\ (Built("EncoderLayer") /\ ret.ok)
           => /\ Cardinality({rc.id : rc \in ResidualsOf(ret.val)}) = 2
              /\ Cardinality({rc.norm.id : rc \in ResidualsOf(ret.val)}) = 2
              /\ Cardinality({rc.dropout.id : rc \in ResidualsOf(ret.val)}) = 2
    /\ Built("DecoderLayer")
           => /\ ret.ok
              /\ Cardinality({rc.id : rc \in ResidualsOf(ret.val)}) = 3
              /\ Cardinality({rc.norm.id : rc \in ResidualsOf(ret.val)}) = 3
              /\ Cardinality({rc.dropout.id : rc \in ResidualsOf(ret.val)}) = 3

(***************************************************************************)
(* Properties of forward, checked under SpecForward.                       *)
(***************************************************************************)
Returned(op) == pc = "called" /\ call.op = op

\* the term of f's result on the term t
ProbeTerm(fn, t) == IF fn = "identity" THEN t ELSE App("g", <<>>, <<t>>)

\* the term of a dropout module's result on the term t
DroppedTerm(d, t) ==
    IF d.p = 0 THEN t ELSE App("dropout", <<d.id, d.p>>, <<t>>)

\* C6: the residual connection is pre-norm: wrap(x, f) calls f exactly once,
\* on normalize(x) and never on x itself, applies dropout to f's result and
\* adds the un-normalized x; with dropout disabled and f the identity the
\* result is x + normalize(x).
C6_ResidualIsPreNorm ==
    Returned("ResidualConnection.forward") =>
        LET x == call.x
            n == LayerNormalization_forward(self.norm, x)
        IN  /\ ~n.ok => (~ret.ok /\ ev = <<>>)
            /\ n.ok =>
                /\ Len(ev) = 1
                /\ ev[1].q = n.val.v
                /\ ev[1].q # x.v
                /\ call.fn = "raise" => ~ret.ok
                /\ call.fn # "raise" =>
                    /\ ret.ok
                    /\ ret.val.v =
                         App("add", <<>>,
                             <<x.v, DroppedTerm(self.dropout,
                                                ProbeTerm(call.fn, n.val.v))>>)
                /\ (call.fn = "identity" /\ self.dropout.p = 0) =>
                    ret.val.v = App("add", <<>>, <<x.v, n.val.v>>)

\* dropout disabled, f the identity: the result is x + normalize(x)
C6_Witness ==
    /\ Returned("ResidualConnection.forward")
    /\ call.fn = "identity" /\ self.dropout.p = 0
    /\ ret.ok
    /\ ret.val.v = App("add", <<>>,
                       <<call.x.v, App("layernorm", <<self.norm.id>>,
                                       <<call.x.v>>)>>)

\* C7: positional encoding's forward, given an input no longer than the
\* seq_len of construction, adds the first rows of the table to it; given a
\* longer input it raises.
C7_PositionalAddsTable ==
    Returned("PositionalEncoding.forward") =>
        LET x   == call.x
            sum == App("add", <<>>, <<x.v, PeSlice(self, x.shape[2]).v>>)
        IN  IF x.shape[2] <= self.seq_len
            THEN /\ ret.ok
                 /\ ret.val.shape = x.shape
                 /\ \/ ret.val.v = sum
                    \/ ret.val.v.op = "dropout" /\ ret.val.v.args = <<sum>>
            ELSE ~ret.ok

\* the parameters and registered buffers of a module, in a fixed order
RECURSIVE Params(_)
RECURSIVE ParamsOfAll(_)
Params(m) ==
    CASE m.cls = "Linear" -> <<m.weight, m.bias>>
      [] m.cls = "Embedding" -> <<m.weight>>
      [] m.cls = "LayerNormalization" -> <<m.alpha, m.beta>>
      [] m.cls = "InputEmbeddings" -> Params(m.embedding)
      [] m.cls = "PositionalEncoding" -> <<m.pe>>
      [] m.cls = "FeedForward" -> Params(m.linear1) \o Params(m.linear2)
      [] m.cls = "MultiHeadAttention" ->
           Params(m.w_q) \o Params(m.w_k) \o Params(m.w_v) \o Params(m.w_o)
      [] m.cls = "ResidualConnection" -> Params(m.norm)
      [] m.cls = "EncoderLayer" ->
           Params(m.multi_head_attention) \o Params(m.feed_forward)
           \o Params(m.residual_connection)
           \o Params(m.residual_connection_ff)
      [] m.cls = "DecoderLayer" ->
           Params(m.self_attention_block) \o Params(m.cross_attention_block)
           \o Params(m.feed_forward_block) \o Params(m.residual_connections)
      [] m.cls \in {"Encoder", "Decoder"} ->
           ParamsOfAll(m.layers) \o Params(m.norm)
      [] m.cls = "ProjectionLayer" -> Params(m.linear)
      [] m.cls = "Transformer" ->
           Params(m.encoder) \o Params(m.decoder) \o Params(m.src_embed)
           \o Params(m.tgt_embed) \o Params(m.src_pos) \o Params(m.tgt_pos)
           \o Params(m.projection_layer)
      [] OTHER -> <<>>

ParamsOfAll(ms) ==
    IF Len(ms) = 0 THEN <<>> ELSE Params(Head(ms)) \o ParamsOfAll(Tail(ms))

\* C8: a forward call (encode, decode, project, and the forward of any
\* module) leaves every parameter and the positional table as they were.
C8_ForwardKeepsParameters ==
    [][pc' = "called" => Params(self') = Params(self)]_vars

\* a model that has projected: its parameters are those it was built with
C8_Witness ==
    /\ Returned("project") /\ ret.ok
    /\ Params(self) # <<>>
    /\ Params(self) = Params(AssembleTransformer(self.src_embed.d_model,
                                 self.src_embed.vocab_size,
                                 self.src_pos.seq_len,
                                 self.src_pos.dropout.p).val)

\* C10: whenever d_model % h = 0, for every batch size, query length and
\* key/value length, the output of multi-head attention has the shape of
\* the query, (batch, query_len, d_model).
C10_OutputHasQueryShape ==
    (/\ Returned("MultiHeadAttention.forward")
     /\ \/ IsNone(call.mask)
        \/ MaskFits(call.mask.shape,
                    <<call.q.shape[1], self.h, call.q.shape[2],
                      call.k.shape[2]>>))
        => /\ self.d_model % self.h = 0
           /\ ret.ok
           /\ ret.val.shape = call.q.shape
           /\ ret.val.shape = <<call.q.shape[1], call.q.shape[2], self.d_model>>

\* cross-attention lengths: several heads, a key longer than the query
C10_Witness ==
    /\ Returned("MultiHeadAttention.forward")
    /\ self.h > 1
    /\ call.k.shape[2] > call.q.shape[2]
    /\ ~IsNone(call.mask)
    /\ ret.ok
    /\ ret.val.shape = call.q.shape

(***************************************************************************)
(* Properties of attention, checked under SpecAttention.                   *)
(***************************************************************************)
\* the attention scores as softmax returned them, before dropout
BeforeDropout(attention_scores, dropout) ==
    IF dropout.cls = "None" \/ dropout.p = 0 THEN attention_scores
    ELSE [i \in 1..Len(attention_scores) |->
             [j \in 1..Len(attention_scores[i]) |->
                 attention_scores[i][j].dropout_of]]

\* C9: the mask is applied to the scores after the division by sqrt(d_k)
\* and before softmax: what softmax is given holds the fill value -1e9
\* (itself not divided) exactly where mask = 0 and the scaled score
\* everywhere else; and attention with an all-ones mask returns what
\* attention without a mask returns.
C9_MaskAfterScaleBeforeSoftmax ==
    Returned("attention") =>
        LET query == call.query
            key   == call.key
            d_k   == Len(query[1])
            soft  == BeforeDropout(ret.val[2], call.dropout)
            unmasked == attention(query, key, call.value, NoObj, call.dropout)
        IN  /\ \A i \in 1..Len(query), j \in 1..Len(key) :
                 /\ soft[i][j].at = j
                 /\ soft[i][j].softmax_of[j] =
                      IF call.mask.cls # "None" /\ MaskAt(call.mask, i, j) = 0
                      THEN Score(NegInf, 1)
                      ELSE Score(DotFrom(query[i], key[j], 1), d_k)
            /\ call.mask.cls = "None" => ret.val = unmasked
            /\ (/\ call.mask.cls # "None"
                /\ \A i \in 1..Len(call.mask.m), j \in 1..Len(key) :
                       call.mask.m[i][j] = 1)
                   => ret.val = unmasked
            /\ (/\ call.mask.cls # "None"
                /\ \E i \in 1..Len(query), j \in 1..Len(key) :
                       MaskAt(call.mask, i, j) = 0)
                   => ret.val # unmasked

\* a mask with a masked and an unmasked key in one row, d_k > 1
C9_Witness ==
    /\ Returned("attention")
    /\ call.mask.cls # "None"
    /\ Len(call.query[1]) > 1
    /\ \E i \in 1..Len(call.query) :
       \E j, k \in 1..Len(call.key) :
           /\ MaskAt(call.mask, i, j) = 0
           /\ MaskAt(call.mask, i, k) = 2
           /\ BeforeDropout(ret.val[2], call.dropout)[i][j].softmax_of
                = [n \in 1..Len(call.key) |->
                             IF MaskAt(call.mask, i, n) = 0
                             THEN Score(NegInf, 1)
                             ELSE Score(DotFrom(call.query[i], call.key[n], 1),
                                        Len(call.query[1]))]

====
